---- MODULE Spec2Model ----
(***************************************************************************)
(* Model of the mail gateway: MailClient (MailClient.py) and the HTTP      *)
(* handlers of mail_api.py (send_mail, list_mails, list_attachments,       *)
(* download_attachment) with the process-wide attachments_cache.           *)
(*                                                                         *)
(* Strings are sequences of one-character strings, bytes are sequences of  *)
(* small naturals.  A protocol connection is a record in conns; a handle   *)
(* is its index.  Every call into imaplib / smtplib may fail: the outcome  *)
(* is drawn with \E in the action that makes the call.                     *)
(***************************************************************************)
EXTENDS Integers, Sequences, FiniteSets, TLC

\* ------------------------------------------------------------------ bounds
MaxMsgs == 3        \* messages in the inbox
MaxReqs == 2        \* requests (calls) made during one run
MaxPar  == 2        \* requests that may be in flight at the same time

\* ------------------------------------------------------- program constants
StreamWindow == 10  \* messages[0].split()[-10:]
DefaultLimit == 5   \* request.args.get('limit', default=5, type=int)

\* ----------------------------------------------------------------- strings
None == <<"<None>">>          \* Python's None where a string is expected
Falsy(x) == x = None \/ x = <<>>      \* "not x" of a str or None
NoBytes(b) == Len(b) = 0              \* "not data" of a decoded payload

Max(a, b) == IF a > b THEN a ELSE b

\* lst[k:] for k >= 0
DropFirst(lst, k) == IF k >= Len(lst) THEN <<>> ELSE SubSeq(lst, k + 1, Len(lst))

\* lst[-k:] as Python evaluates it for any integer k: -0 is 0, so k = 0 is
\* lst[0:], the whole list; k < 0 is lst[|k|:]; k > 0 is the last k elements.
LastSlice(lst, k) ==
    IF k > 0 THEN DropFirst(lst, Max(Len(lst) - k, 0))
    ELSE DropFirst(lst, -k)

\* werkzeug.utils.secure_filename over the alphabet used here:
\*   for sep in os.sep, altsep: filename = filename.replace(sep, " ")
\*   "_".join(filename.split()) ; drop [^A-Za-z0-9_.-] ; .strip("._")
SafeChars == {"a", "b", "1", "2", "_", ".", "-"}
ReplaceSep(s) == [i \in DOMAIN s |-> IF s[i] = "/" THEN " " ELSE s[i]]

RECURSIVE SplitWords(_, _, _)
SplitWords(s, cur, acc) ==
    IF s = <<>> THEN (IF cur = <<>> THEN acc ELSE Append(acc, cur))
    ELSE IF Head(s) = " "
         THEN SplitWords(Tail(s), <<>>, IF cur = <<>> THEN acc ELSE Append(acc, cur))
         ELSE SplitWords(Tail(s), Append(cur, Head(s)), acc)

RECURSIVE JoinWords(_)
JoinWords(ws) ==
    IF ws = <<>> THEN <<>>
    ELSE IF Len(ws) = 1 THEN ws[1]
    ELSE ws[1] \o <<"_">> \o JoinWords(Tail(ws))

RECURSIVE KeepSafe(_)
KeepSafe(s) ==
    IF s = <<>> THEN <<>>
    ELSE IF Head(s) \in SafeChars THEN <<Head(s)>> \o KeepSafe(Tail(s))
    ELSE KeepSafe(Tail(s))

RECURSIVE StripLeft(_)
StripLeft(s) ==
    IF s # <<>> /\ Head(s) \in {".", "_"} THEN StripLeft(Tail(s)) ELSE s

RECURSIVE StripRight(_)
StripRight(s) ==
    IF s # <<>> /\ s[Len(s)] \in {".", "_"}
    THEN StripRight(SubSeq(s, 1, Len(s) - 1)) ELSE s

secure_filename(s) ==
    StripRight(StripLeft(KeepSafe(JoinWords(SplitWords(ReplaceSep(s), <<>>, <<>>)))))

\* cache_key = f"{email_id}_{filename}"
CacheKey(email_id, filename) == email_id \o <<"_">> \o filename

\* ---------------------------------------------------------------- messages
\* A part of a decoded message, in msg.walk() order.  fname is the value of
\* part.get_filename() (None when the part has no filename parameter),
\* payload is part.get_payload(decode=True).
Part(mp, disp, fname, payload, ctype) ==
    [multipart |-> mp, disp |-> disp, fname |-> fname,
     payload |-> payload, ctype |-> ctype]

PRoot == Part(TRUE, FALSE, None, <<>>, "multipart/mixed")
PText == Part(FALSE, FALSE, None, <<7>>, "text/plain")
PAttA == Part(FALSE, TRUE, <<"a">>, <<1, 2>>, "application/pdf")
PAttB == Part(FALSE, TRUE, <<"/", "b">>, <<3>>, "image/png")
PAttE == Part(FALSE, TRUE, <<"b">>, <<>>, "image/png")

\* What the server holds for one identifier.  kind:
\*   "ok"         fetch returns the raw message, headers decode
\*   "malformed"  fetch returns a raw message without a Subject header:
\*                decode_header(msg['Subject']) raises
\*   "empty"      fetch returns an empty literal (raw_email == b'')
\*   "gone"       fetch returns [None] (server-side miss)
Msg(kind, parts) == [kind |-> kind, parts |-> parts]

MsgPlain == Msg("ok", <<PText>>)
MsgAtt   == Msg("ok", <<PRoot, PText, PAttA, PAttB>>)
MsgEmptyAtt == Msg("ok", <<PRoot, PAttE>>)
MsgBad   == Msg("malformed", <<PText>>)
MsgEmpty == Msg("empty", <<>>)
MsgGone  == Msg("gone", <<>>)

\* all sequences over S of length 0..n
SeqsUpTo(S, n) == UNION {[1..k -> S] : k \in 0..n}

\* The identifier the server reads from a request's email_id string: a
\* single decimal digit names a sequence number, anything else is rejected
\* by the server (BAD), which imaplib raises as IMAP4.error.
Digits == <<"1", "2", "3", "4", "5", "6", "7", "8", "9">>
IdNum(s) ==
    IF Len(s) = 1 /\ \E d \in 1..9 : Digits[d] = s[1]
    THEN CHOOSE d \in 1..9 : Digits[d] = s[1]
    ELSE 0

\* ------------------------------------------------------------------- state
VARIABLES
    mailbox,    \* the server's inbox: sequence of Msg, index = identifier
    conns,      \* every connection ever opened, index = handle
    client,     \* mail_client: [imap, smtp], 0 is Python's None
    cache,      \* attachments_cache: set of <<cache key, bytes>>
    rq,         \* the requests: handler position, arguments, locals, result
    finalised   \* mail_client.__del__ has run

vars == <<mailbox, conns, client, cache, rq, finalised>>

Reqs == 1..MaxReqs

NoArg == [to |-> None, subject |-> None, body |-> None, limit |-> DefaultLimit,
          email_id |-> None, filename |-> None]

IdleReq == [op |-> "none", pc |-> "idle", arg |-> NoArg, mail |-> 0,
            sel |-> <<>>, todo |-> <<>>, skipped |-> {}, first |-> TRUE,
            out |-> <<>>, mime |-> "",
            res |-> "none", err |-> "none"]

BatchOps == {"list_emails", "list_headers"}

\* stream chunks: an identifier n >= 1 stands for json.dumps(email_info) of
\* message n
LB == 0
COMMA == -1
RB == -2
ERR == -3

InitWith(Mailboxes) ==
    /\ mailbox \in Mailboxes
    /\ conns = <<>>
    /\ client = [imap |-> 0, smtp |-> 0]
    /\ cache = {}
    /\ rq = [t \in Reqs |-> IdleReq]
    /\ finalised = FALSE

\* --------------------------------------------------------- connections
NewConn(kind, t) ==
    [kind |-> kind, opener |-> t, st |-> "open", authed |-> FALSE,
     logouts |-> 0, users |-> {}]

\* request t issues a command on handle h, leaving it in state st; authed
\* remembers that a login on the handle has succeeded
Cmd(c, h, t, st) ==
    [c EXCEPT ![h].users = @ \cup {t}, ![h].st = st,
              ![h].authed = @ \/ st \in {"auth", "selected"}]

\* request t calls logout() / quit() on handle h
Bye(c, h, t) ==
    [c EXCEPT ![h].users = @ \cup {t}, ![h].st = "closed", ![h].logouts = @ + 1]

InFlight == {t \in Reqs : rq[t].pc \notin {"idle", "done"}}

Done(t, res, err) == [rq EXCEPT ![t].pc = "done", ![t].res = res, ![t].err = err]
Goto(t, pc) == [rq EXCEPT ![t].pc = pc]

\* attachments_cache: a dict, held as its set of <<key, value>> items
CacheHas(c, k) == \E e \in c : e[1] = k
CacheGet(c, k) == (CHOOSE e \in c : e[1] = k)[2]
\* the store left out: the handler answers without remembering the bytes
CachePutDropped(c, k, v) == c

CachePut(c, k, v) == {e \in c : e[1] # k} \cup {<<k, v>>}

\* ------------------------------------------------------------- requests
\* A caller makes a call; its arguments are drawn from the given sets.  par
\* is the number of calls in flight at once.
CanStart(t, par) ==
    /\ ~finalised
    /\ rq[t].pc = "idle"
    /\ \A u \in Reqs : u < t => rq[u].pc # "idle"
    /\ Cardinality(InFlight) < par

\* a call of MailClient.list_emails / list_headers(folder, limit)
StartBatch(t, par, Limits) ==
    /\ CanStart(t, par)
    /\ \E o \in BatchOps, l \in Limits :
         rq' = [rq EXCEPT ![t].op = o, ![t].pc = "connect",
                          ![t].arg = [NoArg EXCEPT !.limit = l]]
    /\ UNCHANGED <<mailbox, conns, client, cache, finalised>>

\* GET /listmails?limit=l
StartListMails(t, par, Limits) ==
    /\ CanStart(t, par)
    /\ \E l \in Limits :
         rq' = [rq EXCEPT ![t].op = "list_mails", ![t].pc = "connect",
                          ![t].arg = [NoArg EXCEPT !.limit = l]]
    /\ UNCHANGED <<mailbox, conns, client, cache, finalised>>

\* POST /sendmail {to, subject, body}
StartSend(t, par, Fields) ==
    /\ CanStart(t, par)
    /\ \E a \in Fields, s \in Fields, b \in Fields :
         rq' = [rq EXCEPT ![t].op = "send", ![t].pc = "validate",
                          ![t].arg = [NoArg EXCEPT !.to = a, !.subject = s, !.body = b]]
    /\ UNCHANGED <<mailbox, conns, client, cache, finalised>>

\* GET /list_attachments?email_id=i
StartListAttachments(t, par, Ids) ==
    /\ CanStart(t, par)
    /\ \E i \in Ids :
         rq' = [rq EXCEPT ![t].op = "list_attachments", ![t].pc = "validate",
                          ![t].arg = [NoArg EXCEPT !.email_id = i]]
    /\ UNCHANGED <<mailbox, conns, client, cache, finalised>>

\* GET /download_attachment?email_id=i&filename=f
StartDownload(t, par, Ids, Names) ==
    /\ CanStart(t, par)
    /\ \E i \in Ids, f \in Names :
         rq' = [rq EXCEPT ![t].op = "download", ![t].pc = "validate",
                          ![t].arg = [NoArg EXCEPT !.email_id = i, !.filename = f]]
    /\ UNCHANGED <<mailbox, conns, client, cache, finalised>>
\* a command on handle h is legal when the library's connection state allows
\* it (imaplib: "command X illegal in state Y"; smtplib: not connected)
Legal(h, states) == h # 0 /\ conns[h].st \in states

Ids(n) == [i \in 1..n |-> i]      \* messages[0].split() of a search for ALL

\* ------------------------------------------------------------ MailClient
\* list_emails / list_headers: self.connect_imap(), the constructor
\* (mail_client is built with use_ssl=True: the IMAP4_SSL branch)
BatchConnect(t) ==
    /\ rq[t].op \in BatchOps /\ rq[t].pc = "connect"
    /\ \/ /\ conns' = Append(conns, NewConn("imap", t))
          /\ client' = [client EXCEPT !.imap = Len(conns) + 1]
          /\ rq' = Goto(t, "login")
       \/ /\ rq' = Done(t, "raise", "connect")
          /\ UNCHANGED <<conns, client>>
    /\ UNCHANGED <<mailbox, cache, finalised>>

\* connect_imap: self.imap.login(...)
BatchLogin(t) ==
    /\ rq[t].op \in BatchOps /\ rq[t].pc = "login"
    /\ LET h == client.imap IN
       \/ /\ Legal(h, {"open"})
          /\ conns' = Cmd(conns, h, t, "auth")
          /\ rq' = Goto(t, "select")
       \/ /\ conns' = Cmd(conns, h, t, conns[h].st)
          /\ rq' = Done(t, "raise", "login")
    /\ UNCHANGED <<mailbox, client, cache, finalised>>

\* self.imap.select(folder): the status is not looked at, so a NO answer
\* leaves the handle authenticated but with no folder selected
BatchSelect(t) ==
    /\ rq[t].op \in BatchOps /\ rq[t].pc = "select"
    /\ LET h == client.imap IN
       \/ /\ Legal(h, {"auth", "selected"})
          /\ \E st \in {"selected", "auth"} : conns' = Cmd(conns, h, t, st)
          /\ rq' = Goto(t, "search")
       \/ /\ conns' = Cmd(conns, h, t, conns[h].st)
          /\ rq' = Done(t, "raise", "select")
    /\ UNCHANGED <<mailbox, client, cache, finalised>>

\* self.imap.search(None, 'ALL'); email_ids[-limit:]
BatchSearch(t) ==
    /\ rq[t].op \in BatchOps /\ rq[t].pc = "search"
    /\ LET h == client.imap IN
       \/ /\ Legal(h, {"selected"})
          /\ conns' = Cmd(conns, h, t, "selected")
          /\ LET ids == LastSlice(Ids(Len(mailbox)), rq[t].arg.limit) IN
             rq' = [rq EXCEPT ![t].pc = "loop", ![t].sel = ids, ![t].todo = ids,
                              ![t].out = <<>>]
       \/ /\ conns' = Cmd(conns, h, t, conns[h].st)
          /\ rq' = Done(t, "raise", "search")
    /\ UNCHANGED <<mailbox, client, cache, finalised>>

\* an exception while message num is fetched or decoded leaves the method
Raise(t, num, err) ==
    [rq EXCEPT ![t].pc = "done", ![t].res = "raise", ![t].err = err,
               ![t].skipped = @ \cup {num}]

\* one iteration of "for num in email_ids[-limit:]": fetch, decode, append.
\* Nothing catches an exception here: it leaves the method.
BatchFetch(t) ==
    /\ rq[t].op \in BatchOps /\ rq[t].pc = "loop" /\ rq[t].todo # <<>>
    /\ LET h == client.imap
           num == Head(rq[t].todo)
       IN
       \/ /\ Legal(h, {"selected"}) /\ mailbox[num].kind = "ok"
          /\ conns' = Cmd(conns, h, t, "selected")
          /\ rq' = [rq EXCEPT ![t].todo = Tail(@), ![t].out = Append(@, num)]
       \/ /\ Legal(h, {"selected"}) /\ mailbox[num].kind = "gone"
          /\ conns' = Cmd(conns, h, t, "selected")
          /\ rq' = Raise(t, num, "fetch")
       \/ /\ Legal(h, {"selected"}) /\ mailbox[num].kind \in {"empty", "malformed"}
          /\ conns' = Cmd(conns, h, t, "selected")
          /\ rq' = Raise(t, num, "decode")
       \/ /\ conns' = Cmd(conns, h, t, conns[h].st)
          /\ rq' = Raise(t, num, "fetch")
    /\ UNCHANGED <<mailbox, client, cache, finalised>>

\* self.imap.logout(); return emails
BatchLogout(t) ==
    /\ rq[t].op \in BatchOps /\ rq[t].pc = "loop" /\ rq[t].todo = <<>>
    /\ conns' = Bye(conns, client.imap, t)
    /\ \/ rq' = Done(t, "ok", "none")
       \/ rq' = Done(t, "raise", "logout")
    /\ UNCHANGED <<mailbox, client, cache, finalised>>

\* the required-fields check with the body forgotten
SendValidateNoBody(t) ==
    /\ rq[t].op = "send" /\ rq[t].pc = "validate"
    /\ LET a == rq[t].arg IN
       IF Falsy(a.to) \/ Falsy(a.subject)
       THEN rq' = Done(t, "400", "validation")
       ELSE rq' = Goto(t, "connect")
    /\ UNCHANGED <<mailbox, conns, client, cache, finalised>>

\* send_mail: the required-fields check
SendValidate(t) ==
    /\ rq[t].op = "send" /\ rq[t].pc = "validate"
    /\ LET a == rq[t].arg IN
       IF Falsy(a.to) \/ Falsy(a.subject) \/ Falsy(a.body)
       THEN rq' = Done(t, "400", "validation")
       ELSE rq' = Goto(t, "connect")
    /\ UNCHANGED <<mailbox, conns, client, cache, finalised>>

\* send_email: self.connect_smtp(), self.smtp = smtplib.SMTP(...)
SendConnect(t) ==
    /\ rq[t].op = "send" /\ rq[t].pc = "connect"
    /\ \/ /\ conns' = Append(conns, NewConn("smtp", t))
          /\ client' = [client EXCEPT !.smtp = Len(conns) + 1]
          /\ rq' = Goto(t, "login")
       \/ /\ rq' = Done(t, "500", "connect")
          /\ UNCHANGED <<conns, client>>
    /\ UNCHANGED <<mailbox, cache, finalised>>

\* connect_smtp: self.smtp.ehlo(); self.smtp.starttls(); self.smtp.login(...),
\* each on whatever self.smtp holds by then
SendLogin(t) ==
    /\ rq[t].op = "send" /\ rq[t].pc = "login"
    /\ LET h == client.smtp IN
       \/ /\ Legal(h, {"open"})
          /\ conns' = Cmd(conns, h, t, "auth")
          /\ rq' = Goto(t, "transmit")
       \/ /\ conns' = Cmd(conns, h, t, conns[h].st)
          /\ rq' = Done(t, "500", "login")
    /\ UNCHANGED <<mailbox, client, cache, finalised>>

\* self.smtp.sendmail(...); out records the handle that carried the message
SendMail(t) ==
    /\ rq[t].op = "send" /\ rq[t].pc = "transmit"
    /\ LET h == client.smtp IN
       \/ /\ Legal(h, {"auth"})
          /\ conns' = Cmd(conns, h, t, "auth")
          /\ rq' = [rq EXCEPT ![t].pc = "quit", ![t].out = <<h>>]
       \/ /\ conns' = Cmd(conns, h, t, conns[h].st)
          /\ rq' = Done(t, "500", "transmit")
    /\ UNCHANGED <<mailbox, client, cache, finalised>>

\* self.smtp.quit(), then send_mail's answer
SendQuit(t) ==
    /\ rq[t].op = "send" /\ rq[t].pc = "quit"
    /\ conns' = Bye(conns, client.smtp, t)
    /\ \/ rq' = Done(t, "200", "none")
       \/ rq' = Done(t, "500", "logout")
    /\ UNCHANGED <<mailbox, client, cache, finalised>>

\* logout() / quit() called by __del__
ByeDel(c, h) == [c EXCEPT ![h].st = "closed", ![h].logouts = @ + 1]

\* MailClient.__del__: try: logout the imap handle if set, then quit the smtp
\* handle if set; any exception ends it silently.
Finalise ==
    /\ ~finalised /\ InFlight = {}
    /\ finalised' = TRUE
    /\ LET c1 == IF client.imap # 0 THEN ByeDel(conns, client.imap) ELSE conns
           c2 == IF client.smtp # 0 THEN ByeDel(c1, client.smtp) ELSE c1
       IN \/ conns' = c2
          \/ client.imap # 0 /\ client.smtp # 0 /\ conns' = c1
    /\ UNCHANGED <<mailbox, client, cache, rq>>
\* -------------------------------------------------- mail_api: list_mails
\* generate()'s "except Exception": one error chunk, then the generator ends
StreamFail(t, err) ==
    [rq EXCEPT ![t].pc = "done", ![t].res = "200", ![t].err = err,
               ![t].out = Append(@, ERR)]

\* mail = imaplib.IMAP4_SSL(IMAP_SERVER)
LmConnect(t) ==
    /\ rq[t].op = "list_mails" /\ rq[t].pc = "connect"
    /\ \/ /\ conns' = Append(conns, NewConn("imap", t))
          /\ rq' = [rq EXCEPT ![t].pc = "login", ![t].mail = Len(conns) + 1]
       \/ /\ rq' = StreamFail(t, "connect")
          /\ UNCHANGED conns
    /\ UNCHANGED <<mailbox, client, cache, finalised>>

\* mail.login(EMAIL_ADDRESS, EMAIL_PASSWORD)
LmLogin(t) ==
    /\ rq[t].op = "list_mails" /\ rq[t].pc = "login"
    /\ LET h == rq[t].mail IN
       \/ /\ Legal(h, {"open"})
          /\ conns' = Cmd(conns, h, t, "auth")
          /\ rq' = Goto(t, "select")
       \/ /\ conns' = Cmd(conns, h, t, conns[h].st)
          /\ rq' = StreamFail(t, "login")
    /\ UNCHANGED <<mailbox, client, cache, finalised>>

\* mail.select('inbox'); yield '['
LmSelect(t) ==
    /\ rq[t].op = "list_mails" /\ rq[t].pc = "select"
    /\ LET h == rq[t].mail IN
       \/ /\ Legal(h, {"auth", "selected"})
          /\ \E st \in {"selected", "auth"} : conns' = Cmd(conns, h, t, st)
          /\ rq' = [rq EXCEPT ![t].pc = "search", ![t].out = Append(@, LB)]
       \/ /\ conns' = Cmd(conns, h, t, conns[h].st)
          /\ rq' = StreamFail(t, "select")
    /\ UNCHANGED <<mailbox, client, cache, finalised>>

\* mail.search(None, 'ALL'); messages[0].split()[-10:]; first = True
LmSearch(t) ==
    /\ rq[t].op = "list_mails" /\ rq[t].pc = "search"
    /\ LET h == rq[t].mail IN
       \/ /\ Legal(h, {"selected"})
          /\ conns' = Cmd(conns, h, t, "selected")
          /\ LET ids == LastSlice(Ids(Len(mailbox)), StreamWindow) IN
             rq' = [rq EXCEPT ![t].pc = "loop", ![t].first = TRUE,
                              ![t].sel = ids, ![t].todo = ids]
       \/ /\ conns' = Cmd(conns, h, t, conns[h].st)
          /\ rq' = StreamFail(t, "search")
    /\ UNCHANGED <<mailbox, client, cache, finalised>>

\* one iteration of "for eid in email_ids": the separator, then fetch and
\* decode inside try / except Exception: continue
LmFetch(t) ==
    /\ rq[t].op = "list_mails" /\ rq[t].pc = "loop" /\ rq[t].todo # <<>>
    /\ LET h == rq[t].mail
           eid == Head(rq[t].todo)
           sep == IF rq[t].first THEN rq[t].out ELSE Append(rq[t].out, COMMA)
           skip == [rq EXCEPT ![t].todo = Tail(@), ![t].first = FALSE, ![t].out = sep,
                              ![t].skipped = @ \cup {eid}]
       IN
       \/ /\ Legal(h, {"selected"}) /\ mailbox[eid].kind = "ok"
          /\ conns' = Cmd(conns, h, t, "selected")
          /\ rq' = [rq EXCEPT ![t].todo = Tail(@), ![t].first = FALSE,
                              ![t].out = Append(sep, eid)]
       \/ /\ Legal(h, {"selected"}) /\ mailbox[eid].kind = "empty"
          /\ conns' = Cmd(conns, h, t, "selected")
          /\ rq' = skip
       \/ /\ Legal(h, {"selected"}) /\ mailbox[eid].kind \in {"gone", "malformed"}
          /\ conns' = Cmd(conns, h, t, "selected")
          /\ rq' = skip
       \/ /\ conns' = Cmd(conns, h, t, conns[h].st)
          /\ rq' = skip
    /\ UNCHANGED <<mailbox, client, cache, finalised>>

\* yield ']'; mail.logout()
LmLogout(t) ==
    /\ rq[t].op = "list_mails" /\ rq[t].pc = "loop" /\ rq[t].todo = <<>>
    /\ conns' = Bye(conns, rq[t].mail, t)
    /\ \/ rq' = [rq EXCEPT ![t].pc = "done", ![t].res = "200",
                           ![t].out = Append(@, RB)]
       \/ rq' = [rq EXCEPT ![t].pc = "done", ![t].res = "200", ![t].err = "logout",
                           ![t].out = Append(Append(@, RB), ERR)]
    /\ UNCHANGED <<mailbox, client, cache, finalised>>

\* -------------------------- mail_api: list_attachments, download_attachment
\* "except Exception: return 500" of both handlers; the finally block follows
ApiFail(t, code, err) ==
    [rq EXCEPT ![t].pc = "finally", ![t].res = code, ![t].err = err]

\* the part filter without the test of the filename
IsNamedUnnamed(p) ==
    ~p.multipart /\ p.disp

\* a part the walks look at: not a container, with a Content-Disposition
\* header and a filename
IsNamed(p) ==
    ~p.multipart /\ p.disp /\ ~Falsy(p.fname)

\* the parts of the message a fetch of identifier n returned (an empty
\* literal parses to a message with one part and no disposition)
PartsOf(n) == IF mailbox[n].kind = "empty" THEN <<>> ELSE mailbox[n].parts

\* msg_data[0] is None: the server has nothing for the identifier
NoData(n) == IF n > Len(mailbox) THEN TRUE ELSE mailbox[n].kind = "gone"

\* round(size / 1024, 2) in hundredths of a kilobyte: size / 1024 is exact in
\* binary floating point, and round() takes a tie to the even neighbour
SizeKb(size) ==
    LET q == (size * 100) \div 1024
        r == (size * 100) % 1024
    IN IF 2 * r > 1024 THEN q + 1
       ELSE IF 2 * r = 1024 THEN q + (q % 2)
       ELSE q

RECURSIVE Manifest(_)
Manifest(parts) ==
    IF parts = <<>> THEN <<>>
    ELSE LET p == Head(parts) IN
         IF IsNamed(p)
         THEN <<[filename |-> secure_filename(p.fname),
                 size_kb |-> SizeKb(Len(p.payload)),
                 mime_type |-> p.ctype]>> \o Manifest(Tail(parts))
         ELSE Manifest(Tail(parts))

\* list_attachments: the required-parameter check
LaValidate(t) ==
    /\ rq[t].op = "list_attachments" /\ rq[t].pc = "validate"
    /\ IF Falsy(rq[t].arg.email_id)
       THEN rq' = Done(t, "400", "validation")
       ELSE rq' = Goto(t, "connect")
    /\ UNCHANGED <<mailbox, conns, client, cache, finalised>>

\* mail = imaplib.IMAP4_SSL(IMAP_SERVER)
LaConnect(t) ==
    /\ rq[t].op = "list_attachments" /\ rq[t].pc = "connect"
    /\ \/ /\ conns' = Append(conns, NewConn("imap", t))
          /\ rq' = [rq EXCEPT ![t].pc = "login", ![t].mail = Len(conns) + 1]
       \/ /\ rq' = ApiFail(t, "500", "connect")
          /\ UNCHANGED conns
    /\ UNCHANGED <<mailbox, client, cache, finalised>>

\* mail.login(EMAIL_ADDRESS, EMAIL_PASSWORD)
LaLogin(t) ==
    /\ rq[t].op = "list_attachments" /\ rq[t].pc = "login"
    /\ LET h == rq[t].mail IN
       \/ /\ Legal(h, {"open"})
          /\ conns' = Cmd(conns, h, t, "auth")
          /\ rq' = Goto(t, "select")
       \/ /\ conns' = Cmd(conns, h, t, conns[h].st)
          /\ rq' = ApiFail(t, "500", "login")
    /\ UNCHANGED <<mailbox, client, cache, finalised>>

\* mail.select('inbox'), its status not looked at
LaSelect(t) ==
    /\ rq[t].op = "list_attachments" /\ rq[t].pc = "select"
    /\ LET h == rq[t].mail IN
       \/ /\ Legal(h, {"auth", "selected"})
          /\ \E st \in {"selected", "auth"} : conns' = Cmd(conns, h, t, st)
          /\ rq' = Goto(t, "fetch")
       \/ /\ conns' = Cmd(conns, h, t, conns[h].st)
          /\ rq' = ApiFail(t, "500", "select")
    /\ UNCHANGED <<mailbox, client, cache, finalised>>

\* mail.fetch(email_id, '(RFC822)'), message_from_bytes, the walk, jsonify
LaFetch(t) ==
    /\ rq[t].op = "list_attachments" /\ rq[t].pc = "fetch"
    /\ LET h == rq[t].mail
           n == IdNum(rq[t].arg.email_id)
       IN
       \/ /\ Legal(h, {"selected"}) /\ n # 0 /\ ~NoData(n)
          /\ conns' = Cmd(conns, h, t, "selected")
          /\ rq' = [rq EXCEPT ![t].pc = "finally", ![t].res = "200",
                              ![t].out = Manifest(PartsOf(n))]
       \/ /\ Legal(h, {"selected"}) /\ n # 0 /\ NoData(n)
          /\ conns' = Cmd(conns, h, t, "selected")
          /\ rq' = ApiFail(t, "500", "decode")
       \/ /\ conns' = Cmd(conns, h, t, conns[h].st)
          /\ rq' = ApiFail(t, "500", "fetch")
    /\ UNCHANGED <<mailbox, client, cache, finalised>>

\* finally: try: mail.logout() except: pass.  When the constructor failed,
\* mail is unbound and the NameError is swallowed too.
LaFinally(t) ==
    /\ rq[t].op = "list_attachments" /\ rq[t].pc = "finally"
    /\ conns' = IF rq[t].mail # 0 THEN Bye(conns, rq[t].mail, t) ELSE conns
    /\ rq' = Goto(t, "done")
    /\ UNCHANGED <<mailbox, client, cache, finalised>>
\* the walk returning at the last matching part instead of the first
FirstMatchLast(parts, filename) ==
    LET hits == {i \in 1..Len(parts) :
                   IsNamed(parts[i]) /\ secure_filename(parts[i].fname) = filename}
    IN IF hits = {} THEN 0 ELSE CHOOSE i \in hits : \A j \in hits : i >= j

\* index in walk order of the first named part whose sanitized filename is
\* the requested one, 0 when there is none
FirstMatch(parts, filename) ==
    LET hits == {i \in 1..Len(parts) :
                   IsNamed(parts[i]) /\ secure_filename(parts[i].fname) = filename}
    IN IF hits = {} THEN 0 ELSE CHOOSE i \in hits : \A j \in hits : i <= j

\* a look-up that evicts the entry it serves
DlValidateEvicts(t) ==
    /\ rq[t].op = "download" /\ rq[t].pc = "validate"
    /\ LET a == rq[t].arg
           key == CacheKey(a.email_id, a.filename)
       IN
       IF Falsy(a.email_id) \/ Falsy(a.filename)
       THEN rq' = Done(t, "400", "validation") /\ UNCHANGED cache
       ELSE IF CacheHas(cache, key)
       THEN /\ rq' = [rq EXCEPT ![t].pc = "done", ![t].res = "200",
                                ![t].out = CacheGet(cache, key), ![t].mime = "guessed"]
            /\ cache' = {e \in cache : e[1] # key}
       ELSE rq' = Goto(t, "connect") /\ UNCHANGED cache
    /\ UNCHANGED <<mailbox, conns, client, finalised>>

\* download_attachment: the required-parameter check and the cache look-up
DlValidate(t) ==
    /\ rq[t].op = "download" /\ rq[t].pc = "validate"
    /\ LET a == rq[t].arg
           key == CacheKey(a.email_id, a.filename)
       IN
       IF Falsy(a.email_id) \/ Falsy(a.filename)
       THEN rq' = Done(t, "400", "validation")
       ELSE IF CacheHas(cache, key)
       THEN rq' = [rq EXCEPT ![t].pc = "done", ![t].res = "200",
                             ![t].out = CacheGet(cache, key), ![t].mime = "guessed"]
       ELSE rq' = Goto(t, "connect")
    /\ UNCHANGED <<mailbox, conns, client, cache, finalised>>

\* mail = imaplib.IMAP4_SSL(IMAP_SERVER)
DlConnect(t) ==
    /\ rq[t].op = "download" /\ rq[t].pc = "connect"
    /\ \/ /\ conns' = Append(conns, NewConn("imap", t))
          /\ rq' = [rq EXCEPT ![t].pc = "login", ![t].mail = Len(conns) + 1]
       \/ /\ rq' = ApiFail(t, "500", "connect")
          /\ UNCHANGED conns
    /\ UNCHANGED <<mailbox, client, cache, finalised>>

\* mail.login(EMAIL_ADDRESS, EMAIL_PASSWORD)
DlLogin(t) ==
    /\ rq[t].op = "download" /\ rq[t].pc = "login"
    /\ LET h == rq[t].mail IN
       \/ /\ Legal(h, {"open"})
          /\ conns' = Cmd(conns, h, t, "auth")
          /\ rq' = Goto(t, "select")
       \/ /\ conns' = Cmd(conns, h, t, conns[h].st)
          /\ rq' = ApiFail(t, "500", "login")
    /\ UNCHANGED <<mailbox, client, cache, finalised>>

\* mail.select('inbox'), its status not looked at
DlSelect(t) ==
    /\ rq[t].op = "download" /\ rq[t].pc = "select"
    /\ LET h == rq[t].mail IN
       \/ /\ Legal(h, {"auth", "selected"})
          /\ \E st \in {"selected", "auth"} : conns' = Cmd(conns, h, t, st)
          /\ rq' = Goto(t, "fetch")
       \/ /\ conns' = Cmd(conns, h, t, conns[h].st)
          /\ rq' = ApiFail(t, "500", "select")
    /\ UNCHANGED <<mailbox, client, cache, finalised>>

\* mail.fetch(email_id, '(RFC822)'), message_from_bytes, the walk up to the
\* first part whose sanitized filename is the requested one, the cache store
DlFetch(t) ==
    /\ rq[t].op = "download" /\ rq[t].pc = "fetch"
    /\ LET h == rq[t].mail
           a == rq[t].arg
           n == IdNum(a.email_id)
           parts == PartsOf(n)
           i == FirstMatch(parts, a.filename)
       IN
       \/ /\ Legal(h, {"selected"}) /\ n # 0 /\ NoData(n)
          /\ conns' = Cmd(conns, h, t, "selected")
          /\ rq' = ApiFail(t, "404", "fetch")
          /\ UNCHANGED cache
       \/ /\ Legal(h, {"selected"}) /\ n # 0 /\ ~NoData(n) /\ i = 0
          /\ conns' = Cmd(conns, h, t, "selected")
          /\ rq' = ApiFail(t, "404", "notfound")
          /\ UNCHANGED cache
       \/ /\ Legal(h, {"selected"}) /\ n # 0 /\ ~NoData(n) /\ i # 0
          /\ NoBytes(parts[i].payload)
          /\ conns' = Cmd(conns, h, t, "selected")
          /\ rq' = ApiFail(t, "404", "empty")
          /\ UNCHANGED cache
       \/ /\ Legal(h, {"selected"}) /\ n # 0 /\ ~NoData(n) /\ i # 0
          /\ ~NoBytes(parts[i].payload)
          /\ conns' = Cmd(conns, h, t, "selected")
          /\ cache' = CachePut(cache, CacheKey(a.email_id, a.filename), parts[i].payload)
          /\ rq' = [rq EXCEPT ![t].pc = "finally", ![t].res = "200",
                              ![t].out = parts[i].payload, ![t].mime = parts[i].ctype]
       \/ /\ conns' = Cmd(conns, h, t, conns[h].st)
          /\ rq' = ApiFail(t, "500", "fetch")
          /\ UNCHANGED cache
    /\ UNCHANGED <<mailbox, client, finalised>>

\* finally: try: mail.logout() except: pass
DlFinally(t) ==
    /\ rq[t].op = "download" /\ rq[t].pc = "finally"
    /\ conns' = IF rq[t].mail # 0 THEN Bye(conns, rq[t].mail, t) ELSE conns
    /\ rq' = Goto(t, "done")
    /\ UNCHANGED <<mailbox, client, cache, finalised>>

\* ------------------------------------------------------- specifications
ClientStep(t) ==
    \/ BatchConnect(t) \/ BatchLogin(t) \/ BatchSelect(t) \/ BatchSearch(t)
    \/ BatchFetch(t) \/ BatchLogout(t)

SendStep(t) ==
    \/ SendValidate(t) \/ SendConnect(t) \/ SendLogin(t) \/ SendMail(t) \/ SendQuit(t)

StreamStep(t) ==
    \/ LmConnect(t) \/ LmLogin(t) \/ LmSelect(t) \/ LmSearch(t)
    \/ LmFetch(t) \/ LmLogout(t)

AttachStep(t) ==
    \/ LaValidate(t) \/ LaConnect(t) \/ LaLogin(t) \/ LaSelect(t)
    \/ LaFetch(t) \/ LaFinally(t)

DownloadStep(t) ==
    \/ DlValidate(t) \/ DlConnect(t) \/ DlLogin(t) \/ DlSelect(t)
    \/ DlFetch(t) \/ DlFinally(t)
\* Argument values the callers send.
FieldVals == {None, <<>>, <<"x">>}

\* The gateway as deployed: calls of every kind, up to MaxPar of them in
\* flight at once, on one inbox.
Init == InitWith({<<MsgAtt>>})

Next ==
    \/ \E t \in Reqs : StartBatch(t, MaxPar, {1})
    \/ \E t \in Reqs : StartListMails(t, MaxPar, {1})
    \/ \E t \in Reqs : StartSend(t, MaxPar, FieldVals)
    \/ \E t \in Reqs : StartListAttachments(t, MaxPar, {None, <<"1">>})
    \/ \E t \in Reqs : StartDownload(t, MaxPar, {<<"1">>}, {<<>>, <<"a">>})
    \/ \E t \in Reqs : ClientStep(t)
    \/ \E t \in Reqs : SendStep(t)
    \/ \E t \in Reqs : StreamStep(t)
    \/ \E t \in Reqs : AttachStep(t)
    \/ \E t \in Reqs : DownloadStep(t)
    \/ Finalise

Spec == Init /\ [][Next]_vars

\* One listing call (batch or streamed) on a fresh client, over every inbox
\* of up to MaxMsgs messages and every limit around that size.
Limits == -1..(MaxMsgs + 1)
ListMsgs == {MsgPlain, MsgBad, MsgEmpty, MsgGone}

InitList == InitWith(SeqsUpTo(ListMsgs, MaxMsgs))

NextList ==
    \/ StartBatch(1, 1, Limits)
    \/ StartListMails(1, 1, Limits)
    \/ ClientStep(1)
    \/ StreamStep(1)
    \/ Finalise

SpecList == InitList /\ [][NextList]_vars

\* POST /sendmail only, up to MaxPar requests in flight at once.
InitSend == InitWith({<<MsgPlain>>})

NextSend ==
    \/ \E t \in Reqs : StartSend(t, MaxPar, FieldVals)
    \/ \E t \in Reqs : SendStep(t)
    \/ Finalise

SpecSend == InitSend /\ [][NextSend]_vars

\* GET /download_attachment only, up to MaxPar requests in flight at once.
PAttAA == Part(FALSE, TRUE, <<"a", " ", "a">>, <<5>>, "text/csv")
MsgDup == Msg("ok", <<PRoot, PAttA, PAttAA, Part(FALSE, TRUE, <<"/", "a">>, <<9>>, "text/csv")>>)

IdVals == {None, <<"1">>, <<"1", "_", "a">>}
NameVals == {<<"a">>, <<"a", "_", "a">>}

InitDownload == InitWith({<<MsgDup>>})

NextDownload ==
    \/ \E t \in Reqs : StartDownload(t, MaxPar, IdVals, NameVals)
    \/ \E t \in Reqs : DownloadStep(t)

SpecDownload == InitDownload /\ [][NextDownload]_vars

\* The two attachment endpoints, one call after the other on the same
\* message, for every message of AttachMsgs.
PNoName == Part(FALSE, TRUE, None, <<4>>, "text/csv")
PUnsafe == Part(FALSE, TRUE, <<"/">>, <<6>>, "text/csv")
PBigA == Part(FALSE, TRUE, <<"/", "a">>, <<1, 1, 1, 1, 1, 1>>, "text/csv")
PBigB == Part(FALSE, TRUE, <<"b">>, <<2, 2, 2, 2, 2, 2>>, "image/png")
PEmptyA == Part(FALSE, TRUE, <<"a">>, <<>>, "text/csv")

PInline == Part(FALSE, FALSE, <<"b">>, <<8>>, "image/png")

MsgOdd == Msg("ok", <<PRoot, PNoName, PText, PUnsafe, PInline, PBigB>>)
MsgShadow == Msg("ok", <<PRoot, PAttA, PBigA>>)
MsgHidden == Msg("ok", <<PRoot, PEmptyA, PBigA>>)

AttachMsgs == {MsgAtt, MsgDup, MsgEmptyAtt, MsgOdd, MsgShadow, MsgHidden,
               MsgEmpty, MsgGone}
AttachIds == {None, <<"1">>, <<"2">>}
AttachNames == {<<>>, <<"a">>, <<"b">>}

InitAttach == InitWith({<<m>> : m \in AttachMsgs})

NextAttach ==
    \/ \E t \in Reqs : StartListAttachments(t, 1, AttachIds)
    \/ \E t \in Reqs : StartDownload(t, 1, AttachIds, AttachNames)
    \/ \E t \in Reqs : AttachStep(t)
    \/ \E t \in Reqs : DownloadStep(t)

SpecAttach == InitAttach /\ [][NextAttach]_vars
\* ---------------------------------------------------------------- claims
Ended(t) == rq[t].pc = "done"
Opened(t) == {h \in DOMAIN conns : conns[h].opener = t}
ListOps == BatchOps \cup {"list_mails"}
StartErrs == {"connect", "login", "select", "search"}

\* the summaries in a listing's output (the stream's punctuation left out)
RECURSIVE Items(_)
Items(out) ==
    IF out = <<>> THEN <<>>
    ELSE IF Head(out) > 0 THEN <<Head(out)>> \o Items(Tail(out))
    ELSE Items(Tail(out))

RECURSIVE Without(_, _)
Without(ids, S) ==
    IF ids = <<>> THEN <<>>
    ELSE IF Head(ids) \in S THEN Without(Tail(ids), S)
    ELSE <<Head(ids)>> \o Without(Tail(ids), S)

\* C1: when an operation has ended, in whatever way, a logout/quit has been
\* attempted on every connection it opened.
C1_NoConnectionLeftOpen ==
    \A t \in Reqs : Ended(t) =>
        \A h \in Opened(t) : conns[h].logouts >= 1

\* C2: every connection whose connect succeeded gets exactly one logout/quit
\* call: never a second one, and one by the time the client is finalised.
C2_ExactlyOneDisconnect ==
    \A h \in DOMAIN conns :
        /\ conns[h].logouts <= 1
        /\ (conns[h].authed /\ finalised) => conns[h].logouts = 1

\* C3: a summary listing that returns, batch or streamed, returns at most
\* limit entries (none for a limit of 0 or below).
C3_AtMostLimit ==
    \A t \in Reqs :
        (Ended(t) /\ rq[t].op \in ListOps /\ rq[t].res \in {"ok", "200"}) =>
            Len(Items(rq[t].out)) <= Max(rq[t].arg.limit, 0)

\* C4: once connect and search have succeeded, a listing does not fail on a
\* message whose fetch or decode fails: it goes through every selected
\* message and its summaries are those of the selected messages that did not
\* fail, the failing ones left out.
C4_BadMessageSkipped ==
    \A t \in Reqs :
        (Ended(t) /\ rq[t].op \in ListOps /\ rq[t].err \notin StartErrs) =>
            /\ rq[t].err \notin {"fetch", "decode"}
            /\ rq[t].todo = <<>>
            /\ Items(rq[t].out) = Without(rq[t].sel, rq[t].skipped)
\* a download request whose parameters pass the required-parameter check
ValidDownload(t) ==
    /\ rq[t].op = "download"
    /\ rq[t].arg.email_id \notin {None, <<>>}
    /\ rq[t].arg.filename \notin {None, <<>>}

\* the bytes of the part of message email_id whose sanitized filename is
\* filename (the first such part in walk order); <<>> when there is none
TrueBytes(email_id, filename) ==
    LET n == IdNum(email_id) IN
    IF n = 0 THEN <<>>
    ELSE IF NoData(n) THEN <<>>
    ELSE LET i == FirstMatch(PartsOf(n), filename) IN
         IF i = 0 THEN <<>> ELSE PartsOf(n)[i].payload

\* C5 as stated: two calls with the same (identifier, filename) together
\* open at most one connection, one of them is served from the cache, and
\* both return the same bytes.
C5_TwoCallsOneFetch ==
    \A t1, t2 \in Reqs :
        (t1 < t2 /\ Ended(t1) /\ Ended(t2) /\ ValidDownload(t1) /\ ValidDownload(t2)
           /\ rq[t1].arg = rq[t2].arg) =>
            /\ Cardinality(Opened(t1) \cup Opened(t2)) <= 1
            /\ (rq[t1].mail = 0 \/ rq[t2].mail = 0)
            /\ rq[t1].out = rq[t2].out

\* an earlier call u with t's (identifier, filename) has returned the bytes
EarlierSuccess(u, t) ==
    /\ u # t /\ Ended(u) /\ ValidDownload(u)
    /\ rq[u].res = "200" /\ rq[u].arg = rq[t].arg

\* C5 amended: a download called after a call with the same (identifier,
\* filename) has returned successfully opens no connection and fetches
\* nothing: its first step answers 200 from the cache with the bytes the
\* earlier call returned.
C5_RepeatServedFromCache ==
    [][\A t \in Reqs :
         (/\ rq[t].op = "download" /\ rq[t].pc = "validate"
          /\ rq'[t].pc # "validate"
          /\ \E u \in Reqs : EarlierSuccess(u, t)) =>
            /\ rq'[t].pc = "done" /\ rq'[t].res = "200" /\ rq'[t].mail = 0
            /\ conns' = conns
            /\ \A u \in Reqs : EarlierSuccess(u, t) => rq'[t].out = rq[u].out]_vars

\* two successful calls with the same (identifier, filename): one fetched
\* over its own connection, the other was answered from the cache
C5_Witness ==
    \E t1, t2 \in Reqs :
        /\ t1 # t2 /\ Ended(t1) /\ Ended(t2)
        /\ ValidDownload(t1) /\ ValidDownload(t2) /\ rq[t1].arg = rq[t2].arg
        /\ rq[t1].res = "200" /\ rq[t2].res = "200"
        /\ rq[t1].mail # 0 /\ rq[t2].mail = 0
        /\ Cardinality(Opened(t1) \cup Opened(t2)) = 1
        /\ rq[t1].out = rq[t2].out /\ rq[t1].out # <<>>

\* C6: under any interleaving of downloads, every cache entry is the decoded
\* bytes of the part some (identifier, filename) with that key names, and a
\* request answered from the cache gets the bytes of the part of its own
\* identifier with its own filename.
C6_CacheNeverCorrupted ==
    /\ \A e \in cache :
         \E i \in IdVals, f \in NameVals :
            /\ i \notin {None, <<>>} /\ f \notin {None, <<>>}
            /\ CacheKey(i, f) = e[1]
            /\ e[2] # <<>> /\ e[2] = TrueBytes(i, f)
    /\ \A t \in Reqs :
         (Ended(t) /\ ValidDownload(t) /\ rq[t].res = "200" /\ rq[t].mail = 0) =>
            /\ rq[t].out # <<>>
            /\ rq[t].out = TrueBytes(rq[t].arg.email_id, rq[t].arg.filename)

\* C7: every command on a connection, its close included, comes from the
\* request that opened it.
C7_OwnConnectionOnly ==
    \A h \in DOMAIN conns : conns[h].users \subseteq {conns[h].opener}

\* a send request with a missing or empty destination, subject or body
InvalidSend(t) ==
    /\ rq[t].op = "send"
    /\ \/ rq[t].arg.to \in {None, <<>>}
       \/ rq[t].arg.subject \in {None, <<>>}
       \/ rq[t].arg.body \in {None, <<>>}

\* C8: a send request with a missing or empty destination, subject or body
\* ends with the validation error 400 and never opens, logs in on, transmits
\* on or closes any connection.
C8_InvalidSendRejected ==
    \A t \in Reqs : InvalidSend(t) =>
        /\ rq[t].pc \in {"validate", "done"}
        /\ Ended(t) => (rq[t].res = "400" /\ rq[t].err = "validation")
        /\ \A h \in DOMAIN conns : conns[h].opener # t /\ t \notin conns[h].users

\* an invalid send was rejected while a valid one went out over a connection
C8_Witness ==
    \E t, u \in Reqs :
        /\ InvalidSend(t) /\ Ended(t) /\ rq[t].res = "400"
        /\ rq[u].op = "send" /\ Ended(u) /\ rq[u].res = "200" /\ Opened(u) # {}

\* C9: a streamed listing that fails at connect, login, folder selection or
\* the search emits exactly one error element and nothing else.
C9_StartFailureSingleError ==
    \A t \in Reqs :
        (Ended(t) /\ rq[t].op = "list_mails" /\ rq[t].err \in StartErrs) =>
            rq[t].out = <<ERR>>

\* C10: no operation hands a failure of its logout/quit step to its caller:
\* no result is the logout error, and no stream carries an error element
\* after its closing bracket.
C10_CleanupFailureHidden ==
    \A t \in Reqs : Ended(t) =>
        /\ rq[t].err # "logout"
        /\ \A i \in 1..Len(rq[t].out) :
             (rq[t].op = "list_mails" /\ rq[t].out[i] = RB) => i = Len(rq[t].out)

\* ------------------------------------------------------------------ C11
\* a download that got past the parameter check and was not served from
\* the cache
Missed(t) ==
    /\ Ended(t) /\ rq[t].op = "download"
    /\ rq[t].err # "validation" /\ rq[t].mime # "guessed"

Outcome(t) == <<rq[t].res, rq[t].err>>
SessionErrs == {"connect", "login", "select", "fetch"}

\* the parts of message n that the claim calls matching, in walk order
Matching(n, filename) ==
    {i \in 1..Len(PartsOf(n)) :
       LET p == PartsOf(n)[i] IN
       /\ ~p.multipart /\ p.disp /\ p.fname # None /\ p.fname # <<>>
       /\ secure_filename(p.fname) = filename}

Least(S) == CHOOSE i \in S : \A j \in S : i <= j

Stores(t) ==
    /\ rq[t].op = "download" /\ rq[t].pc = "fetch"
    /\ rq'[t].res = "200"
    /\ cache' = cache \cup {<<CacheKey(rq[t].arg.email_id, rq[t].arg.filename),
                             rq'[t].out>>}

\* the step in which call t gets a failure as its result
Fails(t) == rq[t].res = "none" /\ rq'[t].res \notin {"none", "200"}

\* C12: the cache only grows: no step removes or alters an entry, a step
\* that changes the cache is the storing step of a download that succeeds,
\* and a step in which a call fails leaves the cache as it was.
C12_CacheOnlyGrows ==
    [][/\ cache \subseteq cache'
       /\ cache' # cache => \E t \in Reqs : Stores(t)
       /\ \A t \in Reqs : Fails(t) => cache' = cache]_vars

\* one download has stored its bytes, and a later download of a name the
\* message does not have has failed, the entry still being there
C12_Witness ==
    \E t, u \in Reqs :
        /\ Missed(t) /\ rq[t].res = "200"
        /\ Missed(u) /\ Outcome(u) = <<"404", "notfound">> /\ rq[u].mail > rq[t].mail
        /\ cache = {<<CacheKey(rq[t].arg.email_id, rq[t].arg.filename), rq[t].out>>}

\* ------------------------------------------------------------------ C13
\* the handle a command of request t goes to
HandleOf(t) ==
    IF rq[t].op \in BatchOps THEN client.imap
    ELSE IF rq[t].op = "send" THEN client.smtp
    ELSE rq[t].mail

\* request t is about to issue select, search, fetch or sendmail
AtDataCommand(t) ==
    \/ rq[t].pc \in {"select", "search", "fetch", "transmit"}
    \/ rq[t].pc = "loop" /\ rq[t].todo # <<>>

\* C13: every select, search, fetch and sendmail is issued on a handle that
\* exists, of the right protocol, on which a login has succeeded and no
\* logout or quit has been called.
C13_CommandsOnLiveSession ==
    [][\A t \in Reqs :
         (AtDataCommand(t) /\ rq'[t] # rq[t]) =>
            LET h == HandleOf(t) IN
            /\ h # 0
            /\ conns[h].kind = (IF rq[t].op = "send" THEN "smtp" ELSE "imap")
            /\ conns[h].authed
            /\ conns[h].st # "closed"]_vars

\* ------------------------------------------------------------------ C14
\* the k newest identifiers of a search result (none when k is not positive)
Newest(ids, k) ==
    LET m == IF k < 0 THEN 0 ELSE IF k > Len(ids) THEN Len(ids) ELSE k
    IN SubSeq(ids, Len(ids) - m + 1, Len(ids))

RECURSIVE IsSubseq(_, _)
IsSubseq(a, b) ==
    IF a = <<>> THEN TRUE
    ELSE IF b = <<>> THEN FALSE
    ELSE IF Head(a) = Head(b) THEN IsSubseq(Tail(a), Tail(b))
    ELSE IsSubseq(a, Tail(b))

\* C14: the identifiers a listing returns are a subsequence of the last
\* limit identifiers of the search result, oldest first, none of them twice.
C14_OrderedWithinWindow ==
    \A t \in Reqs :
        (Ended(t) /\ rq[t].op \in ListOps /\ rq[t].err \notin StartErrs) =>
            LET ids == Items(rq[t].out) IN
            /\ IsSubseq(ids, Newest(Ids(Len(mailbox)), rq[t].arg.limit))
            /\ \A i, j \in 1..Len(ids) : i < j => ids[i] < ids[j]

\* ------------------------------------------------------------------ C16
\* the chunks between the brackets: nothing, or elements with one comma
\* between each two of them
RECURSIVE Elements(_)
Elements(s) ==
    IF s = <<>> THEN TRUE
    ELSE IF Head(s) <= 0 THEN FALSE
    ELSE IF Len(s) = 1 THEN TRUE
    ELSE s[2] = COMMA /\ Len(s) >= 3 /\ Elements(SubSeq(s, 3, Len(s)))

\* the concatenation of the chunks parses as a JSON array
JsonArray(out) ==
    /\ Len(out) >= 2
    /\ Head(out) = LB /\ out[Len(out)] = RB
    /\ Elements(SubSeq(out, 2, Len(out) - 1))

\* C16: when the stream got as far as the search and ended without an
\* error element, its chunks concatenate to a well-formed JSON array whose
\* elements are the summaries of the messages that were not skipped.
C16_StreamIsJsonArray ==
    \A t \in Reqs :
        (Ended(t) /\ rq[t].op = "list_mails" /\ rq[t].err = "none") =>
            /\ JsonArray(rq[t].out)
            /\ Items(rq[t].out) = Without(rq[t].sel, rq[t].skipped)

\* ------------------------------------------------------------------ C15
\* the parts of message n the claim says are listed: not multipart, with a
\* content-disposition and a non-empty filename
Listed(n) ==
    {i \in 1..Len(PartsOf(n)) :
       LET p == PartsOf(n)[i] IN
       ~p.multipart /\ p.disp /\ p.fname # None /\ p.fname # <<>>}

\* the k-th of them in walk order
Kth(S, k) == CHOOSE i \in S : Cardinality({j \in S : j <= i}) = k

\* C15: a manifest that was returned has exactly one entry for each part
\* that is not multipart, has a content-disposition and has a non-empty
\* filename, in walk order, and no entry for any other part.
C15_ManifestIsNamedParts ==
    \A t \in Reqs :
        (Ended(t) /\ rq[t].op = "list_attachments" /\ rq[t].res = "200") =>
            LET n == IdNum(rq[t].arg.email_id)
                man == rq[t].out
            IN
            /\ Len(man) = Cardinality(Listed(n))
            /\ \A k \in 1..Len(man) :
                 LET p == PartsOf(n)[Kth(Listed(n), k)] IN
                 /\ man[k].filename = secure_filename(p.fname)
                 /\ man[k].mime_type = p.ctype
                 /\ man[k].size_kb = SizeKb(Len(p.payload))

\* the manifest of a message with a container, a part without filename, two
\* parts without disposition and two attachments has the two attachments
C15_Witness ==
    /\ mailbox = <<MsgOdd>>
    /\ \E t \in Reqs :
        /\ Ended(t) /\ rq[t].op = "list_attachments" /\ rq[t].res = "200"
        /\ Len(rq[t].out) = 2
        /\ rq[t].out[1].filename = <<>>
        /\ rq[t].out[2].filename = <<"b">>

\* ------------------------------------------------------------------ C17
\* C17: when a manifest of a message has an entry of size greater than zero
\* and a download of the same message and of that entry's filename has
\* ended without a connection failure, the download succeeded and returned
\* bytes of the size the entry reports.
C17_ListedIsDownloadable ==
    \A t, u \in Reqs :
        (/\ Ended(t) /\ rq[t].op = "list_attachments" /\ rq[t].res = "200"
         /\ Ended(u) /\ rq[u].op = "download" /\ rq[u].res # "500"
         /\ rq[u].arg.email_id = rq[t].arg.email_id) =>
            \A k \in 1..Len(rq[t].out) :
                (rq[t].out[k].size_kb > 0 /\ rq[t].out[k].filename = rq[u].arg.filename) =>
                    /\ rq[u].res = "200"
                    /\ SizeKb(Len(rq[u].out)) = rq[t].out[k].size_kb

====
